---- MODULE Spec2Model ----
(***************************************************************************)
(* Model of psc_datalogger.connection: the ConnectionManager control       *)
(* surface, the Worker polling loop, the DataWriter and the thermocouple   *)
(* conversion.  Two execution contexts are modelled: the control context   *)
(* (the thread that calls ConnectionManager / Worker methods) and the      *)
(* polling worker thread that executes Worker.run().                       *)
(*                                                                         *)
(* Python values are modelled as follows.                                  *)
(*   - a str read from the bridge is a sequence of characters, where the   *)
(*     digits of a number form one character-like token ("1E-03");         *)
(*   - None is the string "None"; exceptions are named by their class;     *)
(*   - a datetime is the number of the pass that took it;                  *)
(*   - a command sent to the bridge is <<text>> or <<"++addr", address>>.  *)
(***************************************************************************)
EXTENDS Integers, Sequences, FiniteSets, TLC

(***************************************************************************)
(* Bounds of the model.                                                    *)
(***************************************************************************)
\* Number of polling passes the worker may begin.
MaxPasses == 2
\* Number of DataWriter objects that may be created.
MaxWriters == 2
\* Number of stale samples that may sit in the input buffer after TRIG HOLD.
MaxPending == 1
\* Number of times a write to or a query of the bridge may raise VisaIOError.
MaxFaults == 1
\* Number of resources the VISA resource manager may enumerate.
MaxResources == 3

(***************************************************************************)
(* Input alphabets.                                                        *)
(***************************************************************************)
\* Instrument numbers passed to set_instrument: 1..3 are valid.
SlotArgs == 0 .. 4
Slots == 1 .. 3
\* Texts of the GPIB address box, with the state of the temperature checkbox.
ConfigTexts == { <<"", FALSE>>, <<"0", FALSE>>, <<"5", FALSE>>, <<"9", TRUE>> }
\* Texts of the interval box.
IntervalStrings == {"", "abc", "-1", "0", "2"}
\* File paths: the empty path cannot be opened.
GoodPaths == {"a.csv"}
Paths == GoodPaths \cup {""}
\* What a resource answers to "++help".
Answers == {"help text", "empty", "timeout"}
\* The resources the VISA resource manager enumerates on the host: the
\* Prologix controller and a serial port that does not answer.
Plugged == <<"help text", "timeout">>
\* What the instrument at a GPIB address replies to "TRIG SGL".
Reply(address) ==
  IF address = 5
    THEN <<" ", "1E-03", "\r", "\n">>
    ELSE <<"NUL", " ", "9E+00", "\r", "\n">>
\* What may happen when a configured slot is queried.
Outcomes == {"write raises", "query raises", "reply"}

None == "None"
ERROR_STRING == <<"#", "ERROR">>
EmptyStr == << >>

(***************************************************************************)
(* Python built-ins used by the code.                                      *)
(***************************************************************************)
\* int(gpib_address): the integer, or ValueError.
IntOf(s) ==
  CASE s = "-3" -> [ok |-> TRUE, v |-> 0 - 3]
    [] s = "0" -> [ok |-> TRUE, v |-> 0]
    [] s = "5" -> [ok |-> TRUE, v |-> 5]
    [] s = "9" -> [ok |-> TRUE, v |-> 9]
    [] OTHER -> [ok |-> FALSE, v |-> 0]

\* Variant: a negative number is refused.
FloatOf_nonneg(s) ==
  CASE s = "0" -> [ok |-> TRUE, v |-> 0]
    [] s = "2" -> [ok |-> TRUE, v |-> 2]
    [] OTHER -> [ok |-> FALSE, v |-> 0]

\* float(interval): the number, or ValueError.
FloatOf(s) ==
  CASE s = "-1" -> [ok |-> TRUE, v |-> 0 - 1]
    [] s = "0" -> [ok |-> TRUE, v |-> 0]
    [] s = "2" -> [ok |-> TRUE, v |-> 2]
    [] OTHER -> [ok |-> FALSE, v |-> 0]

\* str.strip(" \r\n"): drop leading and trailing characters of the set.
StripChars == {" ", "\r", "\n"}

RECURSIVE LStrip(_)
LStrip(s) ==
  IF s # << >> /\ Head(s) \in StripChars THEN LStrip(Tail(s)) ELSE s

RECURSIVE RStrip(_)
RStrip(s) ==
  IF s # << >> /\ s[Len(s)] \in StripChars
    THEN RStrip(SubSeq(s, 1, Len(s) - 1))
    ELSE s

\* str.replace("\x00", ""): drop every NUL character.
DropNul(s) == SelectSeq(s, LAMBDA c : c # "NUL")

\* val.strip(" \r\n").replace("\x00", "")
CleanReading(s) == DropNul(RStrip(LStrip(s)))

(***************************************************************************)
(* thermocouple.volts_to_celcius.  A Python value is tagged with its type; *)
(* a float is held in thousandths, the result in millionths of a degree.   *)
(***************************************************************************)
PyStr(s) == [type |-> "str", v |-> s]
PyFloat(x) == [type |-> "float", v |-> x]

\* a + b*x + c*x^2 + d*x^3 in fixed point (x = v / 1000).
Polynomial(v) ==
  (0 - 725) + 25346 * v - ((39 * v * v) \div 100)
    + ((((v * v) \div 1000) * v * 39) \div 1000000)

\* Variant: the bounds of the range are accepted.
volts_to_celcius_closed(millivolts) ==
  IF millivolts.type # "float"
    THEN [exc |-> "TypeError", v |-> 0]
    ELSE IF (0 - 778) <= millivolts.v /\ millivolts.v <= 2436
      THEN [exc |-> None, v |-> Polynomial(millivolts.v)]
      ELSE [exc |-> "AssertionError", v |-> 0]

\* The chained comparison -0.778 < millivolts < 2.436 raises TypeError when
\* millivolts is a str; the assert raises AssertionError when it is false.
volts_to_celcius(millivolts) ==
  IF millivolts.type # "float"
    THEN [exc |-> "TypeError", v |-> 0]
    ELSE IF (0 - 778) < millivolts.v /\ millivolts.v < 2436
      THEN [exc |-> None, v |-> Polynomial(millivolts.v)]
      ELSE [exc |-> "AssertionError", v |-> 0]

(***************************************************************************)
(* DataWriter.  A writer object is [id, path]; its file handle is open     *)
(* while id is in the set of open handles.  The disk maps a path to the    *)
(* lines flushed to it; buf holds the lines written but not yet flushed.   *)
(***************************************************************************)
csv_fieldnames == <<"timestamp", "instrument 1", "instrument 2", "instrument 3">>

\* str(timestamp)
StrOf(timestamp) == <<"str", timestamp>>

\* open(filepath, "w") succeeds for the paths that can be created.
CanOpen(filepath) == filepath \in GoodPaths

\* file.flush(): the buffered lines reach the disk.
Flush(fs) == [fs EXCEPT !.disk = fs.disk \o fs.buf, !.buf = << >>]

\* DataWriter.__init__ after a successful open: truncate, header, flush.
DataWriterInit(fs) ==
  Flush([fs EXCEPT !.disk = << >>, !.buf = <<csv_fieldnames>>])

\* Variant: the row is left in the buffer.
DataWriterWrite_noflush(fs, timestamp, ins_1, ins_2, ins_3) ==
  [fs EXCEPT !.buf = Append(fs.buf, <<StrOf(timestamp), ins_1, ins_2, ins_3>>)]

\* DataWriter.write: one row, then flush.
DataWriterWrite(fs, timestamp, ins_1, ins_2, ins_3) ==
  Flush([fs EXCEPT !.buf = Append(fs.buf, <<StrOf(timestamp), ins_1, ins_2, ins_3>>)])

\* Worker.writer = None
NoWriter == [id |-> 0, path |-> ""]

\* Variant: the interval test accepts an interval of zero.
validate_parameters_zero(addresses, ival, wr) ==
  IF \A n \in Slots : addresses[n].address <= 0
    THEN FALSE
    ELSE IF ival < 0
      THEN FALSE
      ELSE IF wr = NoWriter
        THEN FALSE
        ELSE TRUE

(***************************************************************************)
(* Worker.validate_parameters                                              *)
(***************************************************************************)
validate_parameters(addresses, ival, wr) ==
  IF \A n \in Slots : addresses[n].address <= 0
    THEN FALSE
    ELSE IF ival <= 0
      THEN FALSE
      ELSE IF wr = NoWriter
        THEN FALSE
        ELSE TRUE

(***************************************************************************)
(* Worker.init_connection: the scan of the enumerated resources, last to   *)
(* first.  The result is the index of the resource taken as the Prologix   *)
(* controller, or 0 when the for loop ends without a break.                *)
(***************************************************************************)
\* Variant: the scan runs first to last.
ScanResources_forward(answers, k) ==
  LET hits == { j \in 1 .. k : answers[j] = "help text" }
  IN IF hits = {} THEN 0 ELSE CHOOSE j \in hits : \A h \in hits : j <= h

RECURSIVE ScanResources(_, _)
ScanResources(answers, k) ==
  IF k = 0
    THEN 0
    ELSE IF answers[k] = "help text"
      THEN k
      ELSE ScanResources(answers, k - 1)

(***************************************************************************)
(* Worker._init_instrument: the commands written before the drain.         *)
(***************************************************************************)
Addr(a) == <<"++addr", a>>
TrigSgl == <<"TRIG SGL">>

\* Variant: the buffers are cleared before the beeper is silenced.
InitCommands_swapped(gpib_address) ==
  << Addr(gpib_address), <<"++auto 1">>, <<"PRESET NORM">>, <<"CLEAR">>,
     <<"BEEP 0">>, <<"TRIG HOLD">> >>

\* Variant: the bridge is not put in read-after-write mode.
InitCommands_noauto(gpib_address) ==
  << Addr(gpib_address), <<"PRESET NORM">>, <<"BEEP 0">>, <<"CLEAR">>,
     <<"TRIG HOLD">> >>

InitCommands(gpib_address) ==
  << Addr(gpib_address), <<"++auto 1">>, <<"PRESET NORM">>, <<"BEEP 0">>,
     <<"CLEAR">>, <<"TRIG HOLD">> >>

InstrumentConfig(address, measure_temp) ==
  [address |-> address, measure_temp |-> measure_temp]

(***************************************************************************)
(* State.                                                                  *)
(***************************************************************************)
VARIABLES
  instrument_addresses, \* Worker.instrument_addresses: slot -> InstrumentConfig
  interval,             \* Worker.interval
  writer,               \* Worker.writer: NoWriter (None) or a DataWriter [id, path]
  handles,              \* ids of the DataWriters whose file is open
  files,                \* path -> [disk, buf]
  nwriters,             \* DataWriters created so far
  logging_signal,       \* the Event: TRUE when set
  running,              \* Worker.running
  lock,                 \* holder of Worker.lock: "free", "control", "worker"
  connection,           \* Worker.connection: index of the resource; 0 while not set
  resources,            \* rm.list_resources(): what each answers to "++help"
  wpc,                  \* where the worker thread is in run()
  wexc,                 \* the exception that ended Worker.run, or None
  pass,                 \* the polling pass in progress or just ended
  passes,               \* polling passes begun
  cpc,                  \* where the control context is inside its call
  initing,              \* the slot whose _init_instrument is in progress, or 0
  pending,              \* connection.bytes_in_buffer during the drain
  faults,               \* VisaIOErrors raised by writes and queries so far
  call,                 \* what the caller saw of the control context's last call
  traced,               \* TRUE when the caller's view is recorded in call
  conv,                 \* a call of volts_to_celcius: its argument and outcome
  inited,               \* slots whose present configuration _init_instrument completed for
  since_stop            \* passes begun since stop_logging last returned

vars == << instrument_addresses, interval, writer, handles, files, nwriters,
           logging_signal, running, lock, connection, resources, wpc, wexc,
           pass, passes, cpc, initing, pending, faults, call, traced, conv, inited, since_stop >>

cfgVars == << instrument_addresses, interval >>
wrVars == << writer, handles, files, nwriters >>
sigVars == << logging_signal, running >>
wkVars == << connection, resources, wpc, wexc, pass, passes >>
ctlVars == << cpc, initing, pending >>

\* A polling pass: its timestamp, the measurements appended so far, and what
\* it did: what happened at each slot reached (outcomes), the commands issued
\* (sent), the signals emitted (notes), the rows handed to writer.write and
\* accepted (written), the exception that ended it (exc).
NoPass ==
  [state |-> "none", ts |-> 0, row |-> << >>, outcomes |-> << >>, sent |-> << >>,
   notes |-> << >>, written |-> << >>, exc |-> None]

NoCall == [op |-> "none", ret |-> None, sent |-> << >>, notes |-> << >>]

\* No call of volts_to_celcius on a number has been made.
Uncalled == [exc |-> "uncalled", v |-> 0]
NoConv == [arg |-> PyFloat(0), out |-> Uncalled, again |-> Uncalled]

\* since_stop when no stop_logging has returned since the last start_logging
\* or _exit.
NotStopped == 0 - 1

\* since_stop in the specifications that do not keep this history.
Unobserved == 0 - 2


\* The state after ConnectionManager() and set_status_bar(): the class
\* attributes of Worker, an unset Event, a free lock, no thread started.
Constructed ==
  /\ instrument_addresses = [n \in Slots |-> InstrumentConfig(0 - 1, FALSE)]
  /\ interval = 0
  /\ writer = NoWriter
  /\ handles = {}
  /\ files = [p \in GoodPaths |-> [disk |-> << >>, buf |-> << >>]]
  /\ nwriters = 0
  /\ logging_signal = FALSE
  /\ running = TRUE
  /\ lock = "free"
  /\ connection = 0
  /\ wpc = "unstarted"
  /\ wexc = None
  /\ pass = NoPass
  /\ passes = 0
  /\ cpc = "idle"
  /\ initing = 0
  /\ pending = 0
  /\ faults = 0
  /\ call = NoCall
  /\ inited = {}

Init ==
  /\ Constructed
  /\ resources = Plugged
  /\ conv = NoConv
  /\ traced = FALSE
  /\ since_stop = Unobserved

InitApi ==
  /\ Constructed
  /\ resources = Plugged
  /\ conv = NoConv
  /\ traced = TRUE
  /\ since_stop = Unobserved

\* What the caller sees of a call: its return value or exception, the
\* commands it sent to the bridge, the status bar methods it called.
Seen(c) == IF traced THEN c ELSE NoCall

Returned(op, ret, sent, notes) ==
  Seen([op |-> op, ret |-> ret, sent |-> sent, notes |-> notes])

\* The record of completed initialisations is kept when the caller's view is
\* not.
Completed(slots) == IF traced THEN {} ELSE slots

\* The count of passes since stop_logging is history too, kept where the
\* specification starts it.
Counted(n) == IF since_stop = Unobserved THEN Unobserved ELSE n

(***************************************************************************)
(* The control context.                                                    *)
(***************************************************************************)
\* ConnectionManager.start: the thread begins Worker.run.
Start ==
  /\ cpc = "idle"
  /\ wpc = "unstarted"
  /\ wpc' = "init_connection"
  /\ call' = Returned("start", None, << >>, << >>)
  /\ UNCHANGED << cfgVars, wrVars, sigVars, lock, connection, resources, wexc,
                  pass, passes, ctlVars, faults, traced, conv, inited, since_stop >>

\* ConnectionManager.set_interval
SetInterval(s) ==
  /\ cpc = "idle"
  /\ IF s = ""
       THEN /\ interval' = interval
            /\ call' = Returned("set_interval", None, << >>, << >>)
       ELSE IF FloatOf(s).ok
         THEN /\ interval' = FloatOf(s).v
              /\ call' = Returned("set_interval", None, << >>, << >>)
         ELSE /\ interval' = interval
              /\ call' = Returned("set_interval", "ValueError", << >>, << >>)
  /\ UNCHANGED << instrument_addresses, wrVars, sigVars, lock, wkVars, ctlVars,
                  faults, traced, conv, inited, since_stop >>

\* Variant: close leaves the file open.
CloseHandle_keep(hs, wr) == hs

\* DataWriter.close on the file of writer wr.
CloseHandle(hs, wr) == hs \ {wr.id}

\* Worker.set_filepath: the body under the lock.
SetFilepath(filepath) ==
  /\ cpc = "idle"
  /\ lock = "free"
  /\ nwriters < MaxWriters
  /\ nwriters' = nwriters + 1
  /\ LET closed == IF writer # NoWriter THEN CloseHandle(handles, writer) ELSE handles
     IN IF CanOpen(filepath)
          THEN /\ handles' = closed \cup {nwriters + 1}
               /\ files' = [files EXCEPT ![filepath] = DataWriterInit(files[filepath])]
               /\ writer' = [id |-> nwriters + 1, path |-> filepath]
               /\ call' = Returned("set_filepath", None, << >>, << >>)
          ELSE /\ handles' = closed
               /\ files' = files
               /\ writer' = writer
               /\ call' = Returned("set_filepath", "OSError", << >>, << >>)
  /\ UNCHANGED << cfgVars, sigVars, lock, wkVars, ctlVars, faults, traced, conv, inited, since_stop >>

\* Variant: the assert lets instrument number 0 through.
ValidInstrumentNumber_zero(instrument_number) ==
  0 <= instrument_number /\ instrument_number <= 3

\* The assert of set_instrument.
ValidInstrumentNumber(instrument_number) ==
  1 <= instrument_number /\ instrument_number <= 3

\* Variant: address 0 is handed to the bridge.
SetInstrument_zero(instrument_number, gpib_address, measure_temp) ==
  /\ cpc = "idle"
  /\ LET address == IntOf(gpib_address)
     IN IF ~ValidInstrumentNumber(instrument_number)
          THEN /\ call' = Returned("set_instrument", "AssertionError", << >>, << >>)
               /\ UNCHANGED << instrument_addresses, cpc, initing, inited >>
          ELSE IF ~address.ok
            THEN /\ call' = Returned("set_instrument", "ValueError", << >>, << >>)
                 /\ UNCHANGED << instrument_addresses, cpc, initing, inited >>
            ELSE /\ instrument_addresses' =
                      [instrument_addresses EXCEPT ![instrument_number] =
                          InstrumentConfig(address.v, measure_temp)]
                 /\ inited' = Completed(inited \ {instrument_number})
                 /\ IF address.v < 0
                      THEN /\ call' = Returned("set_instrument", "ValueError", << >>, << >>)
                           /\ UNCHANGED << cpc, initing >>
                      ELSE /\ call' = Returned("set_instrument", "pending", << >>, << >>)
                           /\ cpc' = "init_instrument"
                           /\ initing' = instrument_number
  /\ UNCHANGED << interval, wrVars, sigVars, lock, wkVars, pending, faults, traced,
                  conv, since_stop >>

\* Variant: the address is checked before the registry is written.
SetInstrument_checked(instrument_number, gpib_address, measure_temp) ==
  /\ cpc = "idle"
  /\ LET address == IntOf(gpib_address)
     IN IF ~ValidInstrumentNumber(instrument_number)
          THEN /\ call' = Returned("set_instrument", "AssertionError", << >>, << >>)
               /\ UNCHANGED << instrument_addresses, cpc, initing, inited >>
          ELSE IF ~address.ok
            THEN /\ call' = Returned("set_instrument", "ValueError", << >>, << >>)
                 /\ UNCHANGED << instrument_addresses, cpc, initing, inited >>
            ELSE IF address.v <= 0
              THEN /\ call' = Returned("set_instrument", "ValueError", << >>, << >>)
                   /\ UNCHANGED << instrument_addresses, cpc, initing, inited >>
              ELSE /\ instrument_addresses' =
                        [instrument_addresses EXCEPT ![instrument_number] =
                            InstrumentConfig(address.v, measure_temp)]
                   /\ inited' = Completed(inited \ {instrument_number})
                   /\ call' = Returned("set_instrument", "pending", << >>, << >>)
                   /\ cpc' = "init_instrument"
                   /\ initing' = instrument_number
  /\ UNCHANGED << interval, wrVars, sigVars, lock, wkVars, pending, faults, traced,
                  conv, since_stop >>

\* Worker.set_instrument up to the point where _init_instrument asks for the
\* lock: the assert, int(), the registry write and the address check.
SetInstrument(instrument_number, gpib_address, measure_temp) ==
  /\ cpc = "idle"
  /\ LET address == IntOf(gpib_address)
     IN IF ~ValidInstrumentNumber(instrument_number)
          THEN /\ call' = Returned("set_instrument", "AssertionError", << >>, << >>)
               /\ UNCHANGED << instrument_addresses, cpc, initing, inited >>
          ELSE IF ~address.ok
            THEN /\ call' = Returned("set_instrument", "ValueError", << >>, << >>)
                 /\ UNCHANGED << instrument_addresses, cpc, initing, inited >>
            ELSE /\ instrument_addresses' =
                      [instrument_addresses EXCEPT ![instrument_number] =
                          InstrumentConfig(address.v, measure_temp)]
                 /\ inited' = Completed(inited \ {instrument_number})
                 /\ IF address.v <= 0
                      THEN /\ call' = Returned("set_instrument", "ValueError", << >>, << >>)
                           /\ UNCHANGED << cpc, initing >>
                      ELSE /\ call' = Returned("set_instrument", "pending", << >>, << >>)
                           /\ cpc' = "init_instrument"
                           /\ initing' = instrument_number
  /\ UNCHANGED << interval, wrVars, sigVars, lock, wkVars, pending, faults, traced,
                  conv, since_stop >>

\* Variant: the writes are made without asking for the lock.
InitInstrument_nolock(failed, bytes_in_buffer) ==
  /\ cpc = "init_instrument"
  /\ failed > 0 => faults < MaxFaults
  /\ LET gpib_address == instrument_addresses[initing].address
         cmds == InitCommands(gpib_address)
     IN IF connection = 0
          THEN /\ failed = 0
               /\ bytes_in_buffer = 0
               /\ call' = Seen([call EXCEPT !.ret = "AttributeError"])
               /\ cpc' = "idle"
               /\ initing' = 0
               /\ UNCHANGED << lock, pending, faults, inited >>
          ELSE IF failed > 0
            THEN /\ bytes_in_buffer = 0
                 /\ call' = Seen([call EXCEPT !.ret = "VisaIOError",
                                              !.sent = SubSeq(cmds, 1, failed)])
                 /\ cpc' = "idle"
                 /\ initing' = 0
                 /\ faults' = faults + 1
                 /\ UNCHANGED << lock, pending, inited >>
            ELSE IF bytes_in_buffer = 0
              THEN /\ call' = Seen([call EXCEPT !.ret = None, !.sent = cmds])
                   /\ cpc' = "idle"
                   /\ initing' = 0
                   /\ inited' = Completed(inited \cup {initing})
                   /\ UNCHANGED << lock, pending, faults >>
              ELSE /\ call' = Seen([call EXCEPT !.sent = cmds])
                   /\ cpc' = "drain"
                   /\ lock' = "control"
                   /\ pending' = bytes_in_buffer
                   /\ UNCHANGED << initing, faults, inited >>
  /\ UNCHANGED << cfgVars, wrVars, sigVars, wkVars, traced, conv, since_stop >>

\* Worker._init_instrument under the lock, up to the first test of
\* bytes_in_buffer.  failed = 0: every write succeeded; failed = j: the j-th
\* write raised VisaIOError.
InitInstrument(failed, bytes_in_buffer) ==
  /\ cpc = "init_instrument"
  /\ lock = "free"
  /\ failed > 0 => faults < MaxFaults
  /\ LET gpib_address == instrument_addresses[initing].address
         cmds == InitCommands(gpib_address)
     IN IF connection = 0
          THEN /\ failed = 0
               /\ bytes_in_buffer = 0
               /\ call' = Seen([call EXCEPT !.ret = "AttributeError"])
               /\ cpc' = "idle"
               /\ initing' = 0
               /\ UNCHANGED << lock, pending, faults, inited >>
          ELSE IF failed > 0
            THEN /\ bytes_in_buffer = 0
                 /\ call' = Seen([call EXCEPT !.ret = "VisaIOError",
                                              !.sent = SubSeq(cmds, 1, failed)])
                 /\ cpc' = "idle"
                 /\ initing' = 0
                 /\ faults' = faults + 1
                 /\ UNCHANGED << lock, pending, inited >>
            ELSE IF bytes_in_buffer = 0
              THEN /\ call' = Seen([call EXCEPT !.ret = None, !.sent = cmds])
                   /\ cpc' = "idle"
                   /\ initing' = 0
                   /\ inited' = Completed(inited \cup {initing})
                   /\ UNCHANGED << lock, pending, faults >>
              ELSE /\ call' = Seen([call EXCEPT !.sent = cmds])
                   /\ cpc' = "drain"
                   /\ lock' = "control"
                   /\ pending' = bytes_in_buffer
                   /\ UNCHANGED << initing, faults, inited >>
  /\ UNCHANGED << cfgVars, wrVars, sigVars, wkVars, traced, conv, since_stop >>

\* One turn of the drain loop: connection.read() returns a sample, or raises
\* VisaIOError, which is logged; then bytes_in_buffer is tested again.
DrainRead(left) ==
  /\ cpc = "drain"
  /\ pending > 0
  /\ left <= pending
  /\ pending' = left
  /\ IF left = 0
       THEN /\ call' = Seen([call EXCEPT !.ret = None])
            /\ cpc' = "idle"
            /\ initing' = 0
            /\ lock' = "free"
            /\ inited' = Completed(inited \cup {initing})
       ELSE UNCHANGED << call, cpc, initing, lock, inited >>
  /\ UNCHANGED << cfgVars, wrVars, sigVars, wkVars, faults, traced, conv, since_stop >>

\* A turn of the drain loop in which connection.read() times out: the
\* VisaIOError is logged and the loop tests bytes_in_buffer again, which
\* still reports pending input.
DrainTimeout ==
  /\ cpc = "drain"
  /\ pending > 0
  /\ faults < MaxFaults
  /\ faults' = faults + 1
  /\ UNCHANGED << cfgVars, wrVars, sigVars, lock, wkVars, ctlVars, call, traced,
                  conv, inited, since_stop >>

\* Variant: the Event is set before the parameters are validated.
StartLogging_early ==
  /\ cpc = "idle"
  /\ since_stop' = Counted(NotStopped)
  /\ logging_signal' = TRUE
  /\ IF validate_parameters(instrument_addresses, interval, writer)
       THEN call' = Returned("start_logging", "True", << >>, <<"logging_started">>)
       ELSE call' = Returned("start_logging", "False", << >>, << >>)
  /\ UNCHANGED << cfgVars, wrVars, running, lock, wkVars, ctlVars, faults, traced, conv, inited >>

\* ConnectionManager.start_logging
StartLogging ==
  /\ cpc = "idle"
  /\ since_stop' = Counted(NotStopped)
  /\ IF validate_parameters(instrument_addresses, interval, writer)
       THEN /\ logging_signal' = TRUE
            /\ call' = Returned("start_logging", "True", << >>, <<"logging_started">>)
       ELSE /\ logging_signal' = logging_signal
            /\ call' = Returned("start_logging", "False", << >>, << >>)
  /\ UNCHANGED << cfgVars, wrVars, running, lock, wkVars, ctlVars, faults, traced, conv, inited >>

\* Variant: the Event is toggled instead of cleared.
StopLogging_toggle ==
  /\ cpc = "idle"
  /\ since_stop' = Counted(0)
  /\ logging_signal' = ~logging_signal
  /\ call' = Returned("stop_logging", None, << >>, <<"logging_stopped">>)
  /\ UNCHANGED << cfgVars, wrVars, running, lock, wkVars, ctlVars, faults, traced, conv, inited >>

\* ConnectionManager.stop_logging
StopLogging ==
  /\ cpc = "idle"
  /\ since_stop' = Counted(0)
  /\ logging_signal' = FALSE
  /\ call' = Returned("stop_logging", None, << >>, <<"logging_stopped">>)
  /\ UNCHANGED << cfgVars, wrVars, running, lock, wkVars, ctlVars, faults, traced, conv, inited >>

\* Variant: the Event is cleared.
Exit_clear ==
  /\ cpc = "idle"
  /\ since_stop' = Counted(NotStopped)
  /\ handles' = IF writer # NoWriter THEN CloseHandle(handles, writer) ELSE handles
  /\ running' = FALSE
  /\ logging_signal' = FALSE
  /\ call' = Returned("_exit", None, << >>, << >>)
  /\ UNCHANGED << cfgVars, writer, files, nwriters, lock, wkVars, ctlVars, faults,
                  traced, conv, inited >>

\* Worker._exit
Exit ==
  /\ cpc = "idle"
  /\ since_stop' = Counted(NotStopped)
  /\ handles' = IF writer # NoWriter THEN CloseHandle(handles, writer) ELSE handles
  /\ running' = FALSE
  /\ logging_signal' = TRUE
  /\ call' = Returned("_exit", None, << >>, << >>)
  /\ UNCHANGED << cfgVars, writer, files, nwriters, lock, wkVars, ctlVars, faults,
                  traced, conv, inited >>

(***************************************************************************)
(* The polling worker: Worker.run and what it calls.                       *)
(***************************************************************************)
\* Worker.init_connection, then init_complete.emit().
InitConnection ==
  /\ wpc = "init_connection"
  /\ lock = "free"
  /\ LET found == ScanResources(resources, Len(resources))
     IN IF found = 0
          THEN /\ wexc' = "PrologixNotFoundException"
               /\ wpc' = "raised"
               /\ connection' = connection
          ELSE /\ connection' = found
               /\ wpc' = "loop"
               /\ wexc' = wexc
  /\ UNCHANGED << cfgVars, wrVars, sigVars, lock, resources, pass, passes,
                  ctlVars, faults, call, traced, conv, inited, since_stop >>

\* while self.running:  (the results of the last pass are gone)
CheckRunning ==
  /\ wpc = "loop"
  /\ wpc' = IF running THEN "wait" ELSE "returned"
  /\ pass' = NoPass
  /\ UNCHANGED << cfgVars, wrVars, sigVars, lock, connection, resources, wexc,
                  passes, ctlVars, faults, call, traced, conv, inited, since_stop >>

\* Variant: the wait returns whether or not the Event is set.
WaitSignal_blind ==
  /\ wpc = "wait"
  /\ wpc' = "do_logging"
  /\ UNCHANGED << cfgVars, wrVars, sigVars, lock, connection, resources, wexc,
                  pass, passes, ctlVars, faults, call, traced, conv, inited, since_stop >>

\* self.logging_signal.wait()
WaitSignal ==
  /\ wpc = "wait"
  /\ logging_signal
  /\ wpc' = "do_logging"
  /\ UNCHANGED << cfgVars, wrVars, sigVars, lock, connection, resources, wexc,
                  pass, passes, ctlVars, faults, call, traced, conv, inited, since_stop >>

\* do_logging: take the lock, the two asserts, and the timestamp of
\* query_instruments.  An AssertionError ends the pass (run() catches it).
BeginPass ==
  /\ wpc = "do_logging"
  /\ lock = "free"
  /\ passes < MaxPasses
  /\ passes' = passes + 1
  /\ since_stop' = IF since_stop < 0 THEN since_stop ELSE since_stop + 1
  /\ IF writer = NoWriter
       THEN /\ pass' = [NoPass EXCEPT !.state = "ended", !.exc = "AssertionError"]
            /\ wpc' = "sleep"
            /\ lock' = lock
       ELSE /\ pass' = [NoPass EXCEPT !.state = "running", !.ts = passes + 1]
            /\ wpc' = "query"
            /\ lock' = "worker"
  /\ UNCHANGED << cfgVars, wrVars, sigVars, connection, resources, wexc, ctlVars,
                  faults, call, traced, conv, inited >>

\* The value query_instruments appends for a configured slot.
Measurement(i, outcome) ==
  IF outcome # "reply"
    THEN [exc |-> None, val |-> ERROR_STRING]
    ELSE LET val == CleanReading(Reply(i.address))
         IN IF i.measure_temp
              THEN LET t == volts_to_celcius(PyStr(val))
                   IN CASE t.exc = None -> [exc |-> None, val |-> <<"str", t.v>>]
                        [] t.exc = "AssertionError" -> [exc |-> None, val |-> ERROR_STRING]
                        [] OTHER -> [exc |-> t.exc, val |-> val]
              ELSE [exc |-> None, val |-> val]

\* Variant: the trigger is issued even after the address write raised.
Commands_always(i, outcome) == << Addr(i.address), TrigSgl >>

\* The commands query_instruments issues for a configured slot.
Commands(i, outcome) ==
  IF outcome = "write raises"
    THEN << Addr(i.address) >>
    ELSE << Addr(i.address), TrigSgl >>

\* One turn of the for loop of query_instruments.
QuerySlot(outcome) ==
  /\ wpc = "query"
  /\ outcome # "reply" => faults < MaxFaults
  /\ LET i == instrument_addresses[Len(pass.row) + 1]
     IN IF i.address <= 0
          THEN /\ outcome = "reply"
               /\ pass' = [pass EXCEPT !.row = Append(pass.row, EmptyStr),
                                       !.outcomes = Append(pass.outcomes, "unconfigured")]
               /\ wpc' = IF Len(pass.row) + 1 = 3 THEN "finish" ELSE "query"
               /\ UNCHANGED << lock, faults >>
          ELSE LET m == Measurement(i, outcome)
               IN /\ faults' = IF outcome = "reply" THEN faults ELSE faults + 1
                  /\ IF m.exc = None
                       THEN /\ pass' = [pass EXCEPT
                                          !.row = Append(pass.row, m.val),
                                          !.outcomes = Append(pass.outcomes, outcome),
                                          !.sent = pass.sent \o Commands(i, outcome)]
                            /\ wpc' = IF Len(pass.row) + 1 = 3 THEN "finish" ELSE "query"
                            /\ lock' = lock
                       ELSE /\ pass' = [pass EXCEPT
                                          !.state = "ended", !.exc = m.exc,
                                          !.outcomes = Append(pass.outcomes, outcome),
                                          !.sent = pass.sent \o Commands(i, outcome)]
                            /\ wpc' = "sleep"
                            /\ lock' = "free"
  /\ UNCHANGED << cfgVars, wrVars, sigVars, connection, resources, wexc, passes,
                  ctlVars, call, traced, conv, inited, since_stop >>

\* datetime.isoformat(sep=" ", timespec="seconds")
IsoOf(timestamp) == <<"iso", timestamp>>

\* Variant: the error signal only when every column is the error marker.
Notification_all(timestamp, row) ==
  IF \A k \in 1 .. Len(row) : row[k] = ERROR_STRING
    THEN << <<"error", IsoOf(timestamp)>> >>
    ELSE << <<"query_complete", timestamp>> >>

\* The signal do_logging emits for the results of query_instruments.
Notification(timestamp, row) ==
  IF \E k \in 1 .. Len(row) : row[k] = ERROR_STRING
    THEN << <<"error", IsoOf(timestamp)>> >>
    ELSE << <<"query_complete", timestamp>> >>

\* The rest of do_logging: the notification, then writer.write.  Writing to
\* a closed file raises ValueError, which run() catches.
FinishPass ==
  /\ wpc = "finish"
  /\ wpc' = "sleep"
  /\ lock' = "free"
  /\ IF writer.id \in handles
       THEN /\ files' = [files EXCEPT ![writer.path] =
                           DataWriterWrite(files[writer.path], pass.ts,
                                           pass.row[1], pass.row[2], pass.row[3])]
            /\ pass' = [pass EXCEPT !.state = "ended",
                                    !.notes = Notification(pass.ts, pass.row),
                                    !.written = << <<pass.ts>> \o pass.row >>]
       ELSE /\ files' = files
            /\ pass' = [pass EXCEPT !.state = "ended",
                                    !.notes = Notification(pass.ts, pass.row),
                                    !.exc = "ValueError"]
  /\ UNCHANGED << cfgVars, writer, handles, nwriters, sigVars, connection,
                  resources, wexc, passes, ctlVars, faults, call, traced, conv, inited, since_stop >>

\* time.sleep(self.interval): a negative interval raises ValueError, which
\* nothing in run() catches.
Sleep ==
  /\ wpc = "sleep"
  /\ IF interval < 0
       THEN /\ wpc' = "raised"
            /\ wexc' = "ValueError"
       ELSE /\ wpc' = "loop"
            /\ wexc' = wexc
  /\ UNCHANGED << cfgVars, wrVars, sigVars, lock, connection, resources, pass,
                  passes, ctlVars, faults, call, traced, conv, inited, since_stop >>

(***************************************************************************)
(* Specifications.                                                         *)
(***************************************************************************)
\* The calls of the control context, with arguments drawn from the given
\* sets of <<instrument_number, <<gpib_address, measure_temp>> >>, of interval
\* texts and of file paths.
Control(instruments, intervals, filepaths) ==
  \/ Start
  \/ \E s \in intervals : SetInterval(s)
  \/ \E p \in filepaths : SetFilepath(p)
  \/ \E x \in instruments : SetInstrument(x[1], x[2][1], x[2][2])
  \/ \E failed \in 0 .. 6, b \in 0 .. MaxPending : InitInstrument(failed, b)
  \/ \E left \in 0 .. MaxPending : DrainRead(left)
  \/ DrainTimeout
  \/ StartLogging
  \/ StopLogging
  \/ Exit

Worker ==
  \/ InitConnection
  \/ CheckRunning
  \/ WaitSignal
  \/ BeginPass
  \/ \E outcome \in Outcomes : QuerySlot(outcome)
  \/ FinishPass
  \/ Sleep

AnyCall == Control(SlotArgs \X ConfigTexts, IntervalStrings, Paths)

\* The control surface observed by its caller: the thread may be started
\* and find the bridge, but the worker is not scheduled beyond that.
NextApi == AnyCall \/ InitConnection

SpecApi == InitApi /\ [][NextApi]_vars

\* The operator configures the logger, starts logging and then leaves the
\* program alone: no call of the control context once the Event is set.
NextQuiet == (~logging_signal /\ AnyCall) \/ Worker

SpecQuiet == Init /\ [][NextQuiet]_vars

\* volts_to_celcius called on a number, and called once more on the same
\* number.  The numbers are the thousandths around the modelled range.
Millivolts == (0 - 800) .. 2450

Convert ==
  /\ conv.again = Uncalled
  /\ conv' = IF conv.out = Uncalled
               THEN [conv EXCEPT !.out = volts_to_celcius(conv.arg)]
               ELSE [conv EXCEPT !.again = volts_to_celcius(conv.arg)]
  /\ UNCHANGED << cfgVars, wrVars, sigVars, lock, wkVars, ctlVars, faults, call,
                  traced, inited, since_stop >>

InitConvert ==
  /\ Constructed
  /\ resources = Plugged
  /\ traced = FALSE
  /\ since_stop = Unobserved
  /\ conv \in { [NoConv EXCEPT !.arg = PyFloat(v)] : v \in Millivolts }

NextConvert == Convert

SpecConvert == InitConvert /\ [][NextConvert]_vars

\* The start of the worker thread on a host with any enumeration of
\* resources: discovery, then the first test of the loop.
ResourceLists == UNION { [1 .. n -> Answers] : n \in 0 .. MaxResources }

InitScan ==
  /\ Constructed
  /\ resources \in ResourceLists
  /\ conv = NoConv
  /\ traced = FALSE
  /\ since_stop = Unobserved

NextScan == Start \/ InitConnection \/ CheckRunning \/ Exit

SpecScan == InitScan /\ [][NextScan]_vars

\* The configuration of instruments observed by the caller: two of the
\* slots, addresses below, at and above zero.
InitCalls ==
  Control({1, 2} \X { <<"-3", FALSE>>, <<"0", FALSE>>, <<"5", FALSE>>, <<"9", TRUE>> },
          {"2"}, GoodPaths)

NextInit == InitCalls \/ InitConnection

SpecInit == InitApi /\ [][NextInit]_vars

\* The whole program: the control context and the polling worker, in any
\* interleaving, the operator using two of the slots.
FewCalls ==
  Control({ <<1, <<"5", FALSE>> >>, <<2, <<"9", TRUE>> >>, <<1, <<"0", FALSE>> >> },
          {"2", "-1"}, Paths)

Next == FewCalls \/ Worker

Spec == Init /\ [][Next]_vars

\* The whole program again, with the passes counted that begin after a
\* stop_logging.
InitStop ==
  /\ Constructed
  /\ resources = Plugged
  /\ conv = NoConv
  /\ traced = FALSE
  /\ since_stop = NotStopped

SpecStop == InitStop /\ [][Next]_vars

(***************************************************************************)
(* Properties of the control surface, checked under SpecApi.               *)
(***************************************************************************)
\* C1: validate_parameters() is True exactly when at least one of the three
\* slots has an address > 0, the interval is > 0 and a DataWriter is present;
\* in every other combination it is False.
C1_ValidateParameters ==
  validate_parameters(instrument_addresses, interval, writer)
    <=> /\ \E n \in Slots : instrument_addresses[n].address > 0
        /\ interval > 0
        /\ writer # NoWriter

\* start_logging has just returned False although a slot is configured and a
\* DataWriter is present: the interval alone is not > 0.
C1_Witness ==
  /\ call.op = "start_logging"
  /\ call.ret = "False"
  /\ \E n \in Slots : instrument_addresses[n].address > 0
  /\ writer # NoWriter
  /\ interval <= 0

\* C2: start_logging() returns True exactly when validate_parameters() is true
\* at the call.  When it returns True the Event is set and the status bar is
\* told once that logging started; when it returns False the call does not
\* change the Event and tells the status bar nothing.
C2_StartLogging ==
  [][ StartLogging =>
        /\ call'.op = "start_logging"
        /\ call'.ret \in {"True", "False"}
        /\ call'.ret = "True"
             <=> validate_parameters(instrument_addresses, interval, writer)
        /\ call'.ret = "True"
             => logging_signal' /\ call'.notes = <<"logging_started">>
        /\ call'.ret = "False"
             => logging_signal' = logging_signal /\ call'.notes = << >> ]_vars

\* start_logging has just returned True.
C2_Witness ==
  /\ call.op = "start_logging"
  /\ call.ret = "True"
  /\ call.notes = <<"logging_started">>
  /\ logging_signal

\* C3: stop_logging(), in any state, leaves the Event clear, tells the status
\* bar that logging stopped and returns nothing; it changes neither the
\* configuration nor the writer, and a second call directly after the first
\* leaves the state as the first left it.
C3_StopLogging ==
  [][ StopLogging =>
        /\ ~logging_signal'
        /\ call'.op = "stop_logging"
        /\ call'.ret = None
        /\ call'.notes = <<"logging_stopped">>
        /\ UNCHANGED << cfgVars, wrVars, running >>
        /\ call.op = "stop_logging" => UNCHANGED vars ]_vars

\* stop_logging has just returned in a configuration that start_logging
\* accepts, the Event being clear.
C3_Witness ==
  /\ call.op = "stop_logging"
  /\ call.notes = <<"logging_stopped">>
  /\ ~logging_signal
  /\ validate_parameters(instrument_addresses, interval, writer)

\* C4: set_instrument with an instrument number outside {1, 2, 3} raises
\* AssertionError, leaves the registry as it was and sends no command.
C4_BadInstrumentNumber ==
  [][ \A n \in SlotArgs \ {1, 2, 3}, c \in ConfigTexts :
        SetInstrument(n, c[1], c[2]) =>
          /\ call'.ret = "AssertionError"
          /\ call'.sent = << >>
          /\ instrument_addresses' = instrument_addresses
          /\ cpc' = "idle" ]_vars

\* set_instrument has just raised AssertionError while a slot is configured.
C4_Witness ==
  /\ call.op = "set_instrument"
  /\ call.ret = "AssertionError"
  /\ call.sent = << >>
  /\ \E n \in Slots : instrument_addresses[n].address > 0

\* The commands _init_instrument writes for an address, spelled out.
InitSequence(a) ==
  << <<"++addr", a>>, <<"++auto 1">>, <<"PRESET NORM">>, <<"BEEP 0">>,
     <<"CLEAR">>, <<"TRIG HOLD">> >>

\* C5: set_instrument(n, a, t) with a valid n and an address a > 0 replaces
\* slot n by (a, t) whatever it held and leaves the other two slots alone; the
\* call does not return before the initialisation sequence has been sent for
\* exactly that configuration, and the registry is the same when it returns.
C5_SetInstrument ==
  [][ /\ \A n \in Slots, c \in ConfigTexts :
           (IntOf(c[1]).ok /\ IntOf(c[1]).v > 0 /\ SetInstrument(n, c[1], c[2])) =>
             /\ instrument_addresses'[n] =
                  [address |-> IntOf(c[1]).v, measure_temp |-> c[2]]
             /\ \A m \in Slots \ {n} :
                  instrument_addresses'[m] = instrument_addresses[m]
             /\ call'.ret = "pending"
             /\ initing' = n
      /\ call.ret = "pending" =>
           /\ call.op = "set_instrument"
           /\ instrument_addresses' = instrument_addresses
           /\ call'.ret = None =>
                call'.sent = InitSequence(instrument_addresses[initing].address)
    ]_vars

\* set_instrument(2, "9", True) has returned normally after slot 1 had been
\* given address 5: the sequence sent is the one for address 9.
C5_Witness ==
  /\ call.op = "set_instrument"
  /\ call.ret = None
  /\ call.sent = InitSequence(9)
  /\ instrument_addresses[2] = [address |-> 9, measure_temp |-> TRUE]
  /\ instrument_addresses[1] = [address |-> 5, measure_temp |-> FALSE]

(***************************************************************************)
(* Properties of the polling pass, checked under SpecQuiet.  The registry  *)
(* does not change while a pass is in progress there, so the slot's        *)
(* configuration is the one the pass read.                                 *)
(***************************************************************************)
Failed(k) ==
  /\ Len(pass.outcomes) >= k
  /\ pass.outcomes[k] \in {"write raises", "query raises"}

Replied(k) ==
  /\ Len(pass.outcomes) >= k
  /\ pass.outcomes[k] = "reply"

\* The cleaned text the instrument of slot k returns.
ReadingOf(k) == CleanReading(Reply(instrument_addresses[k].address))

\* The number a reading denotes, in thousandths.
Thousandths(val) ==
  IF val[Len(val)] = "1E-03" THEN 1 ELSE 9000

\* The temperature column for a reading: the converted temperature inside
\* the supported range, the error marker outside it.
TemperatureOf(val) ==
  IF (0 - 778) < Thousandths(val) /\ Thousandths(val) < 2436
    THEN <<"str", Polynomial(Thousandths(val))>>
    ELSE ERROR_STRING

\* The column of slot k in a pass that handled the three slots.
ColumnOf(k) ==
  IF instrument_addresses[k].address <= 0
    THEN EmptyStr
    ELSE IF Failed(k)
      THEN ERROR_STRING
      ELSE IF instrument_addresses[k].measure_temp
        THEN TemperatureOf(ReadingOf(k))
        ELSE ReadingOf(k)

\* C6: a communication failure at one configured slot gives the error marker
\* in that slot's column only; the pass still yields a complete row of three
\* columns, the other columns holding their own readings.
C6_FailureContained ==
  \A k \in Slots :
    (pass.state = "ended" /\ Failed(k)) =>
      /\ Len(pass.row) = 3
      /\ pass.row[k] = ERROR_STRING
      /\ \A j \in Slots \ {k} : pass.row[j] = ColumnOf(j)

\* C7: for a slot configured to measure temperature whose instrument returned
\* a reading, the column holds the converted temperature when the reading is
\* inside the supported range and the error marker when it is outside; the
\* pass goes on and returns a row.
C7_TemperatureColumn ==
  \A k \in Slots :
    (pass.state = "ended" /\ Replied(k) /\ instrument_addresses[k].measure_temp) =>
      /\ Len(pass.row) = 3
      /\ pass.row[k] = TemperatureOf(ReadingOf(k))

\* The commands of a pass that addresses and triggers every configured slot
\* from slot k on.
RECURSIVE Triggered(_)
Triggered(k) ==
  IF k > 3
    THEN << >>
    ELSE (IF instrument_addresses[k].address > 0
            THEN << <<"++addr", instrument_addresses[k].address>>, <<"TRIG SGL">> >>
            ELSE << >>) \o Triggered(k + 1)

\* C8 as stated: in every polling pass the commands sent are, for each slot
\* with address > 0 in slot order, "++addr <address>" followed by exactly one
\* "TRIG SGL"; a slot with address <= 0 sends nothing and yields the empty
\* string.  (Passes that were aborted, and passes begun after _exit, are left
\* aside: the statement is about passes that handled the three slots.)
C8_CommandsPerSlot ==
  (pass.state = "ended" /\ running /\ Len(pass.row) = 3) =>
    /\ pass.sent = Triggered(1)
    /\ \A k \in Slots :
         instrument_addresses[k].address <= 0 =>
           Len(pass.row) >= k /\ pass.row[k] = EmptyStr

\* The commands of a pass for the slots it has handled, from slot k on: the
\* trigger is missing where the address write raised.
RECURSIVE Issued(_)
Issued(k) ==
  IF k > Len(pass.outcomes)
    THEN << >>
    ELSE (IF instrument_addresses[k].address <= 0
            THEN << >>
            ELSE IF pass.outcomes[k] = "write raises"
              THEN << <<"++addr", instrument_addresses[k].address>> >>
              ELSE << <<"++addr", instrument_addresses[k].address>>, <<"TRIG SGL">> >>)
         \o Issued(k + 1)

\* C8 amended: a pass handles the slots in order and, once aborted, handles no
\* further slot.  A handled slot with address <= 0 sends nothing and yields the
\* empty string; a handled slot with address > 0 is sent "++addr <address>"
\* and then one "TRIG SGL", unless the address write raised, in which case no
\* trigger is sent for it.  Nothing else is sent during the pass.
C8_CommandsPerHandledSlot ==
  pass.state # "none" =>
    /\ pass.sent = Issued(1)
    /\ Len(pass.outcomes) <= 3
    /\ Len(pass.row) \in {Len(pass.outcomes), Len(pass.outcomes) - 1}
    /\ Len(pass.row) < Len(pass.outcomes) => pass.state = "ended"
    /\ \A k \in 1 .. Len(pass.outcomes) :
         instrument_addresses[k].address <= 0 =>
           pass.outcomes[k] = "unconfigured" /\ pass.row[k] = EmptyStr

\* A pass has ended in which the address write of slot 1 raised, slot 2 is
\* not configured and slot 3 replied.
C8_Witness ==
  /\ pass.state = "ended"
  /\ Len(pass.row) = 3
  /\ pass.outcomes = <<"write raises", "unconfigured", "reply">>
  /\ pass.sent = << <<"++addr", instrument_addresses[1].address>>,
                    <<"++addr", instrument_addresses[3].address>>, <<"TRIG SGL">> >>

\* C9: a pass that obtained its three readings emits exactly one signal: the
\* error signal when at least one column is the error marker, otherwise
\* query_complete with the timestamp of the pass.
C9_OneNotification ==
  (pass.state = "ended" /\ Len(pass.row) = 3) =>
    /\ Len(pass.notes) = 1
    /\ IF \E k \in Slots : pass.row[k] = ERROR_STRING
         THEN pass.notes[1][1] = "error"
         ELSE pass.notes[1] = <<"query_complete", pass.ts>>

\* A pass has ended with the error marker in column 2 only, and the error
\* signal was emitted.
C9_Witness ==
  /\ pass.state = "ended"
  /\ Len(pass.row) = 3
  /\ pass.row[2] = ERROR_STRING
  /\ pass.row[1] # ERROR_STRING
  /\ pass.row[3] # ERROR_STRING
  /\ Len(pass.notes) = 1
  /\ pass.notes[1][1] = "error"

\* C10: every polling pass hands exactly one row to the writer, made of the
\* timestamp of the pass and its three columns, error markers included.
\* (Passes begun after _exit are left aside.)
C10_OneRowPerPass ==
  (pass.state = "ended" /\ running) =>
    /\ Len(pass.row) = 3
    /\ pass.written = << <<pass.ts>> \o pass.row >>

(***************************************************************************)
(* Properties of the worker loop under concurrent control calls, checked   *)
(* under Spec.                                                             *)
(***************************************************************************)
\* C11: an exception raised during a polling pass does not terminate the
\* worker loop: the worker goes to the interval sleep, and from the sleep back
\* to the test of the loop, so that a later pass can run.  (The loop is
\* considered while the worker has not been told to exit.)
C11_LoopSurvivesPass ==
  [][ /\ (pass'.state = "ended" /\ pass.state # "ended" /\ pass'.exc # None)
           => (wpc' = "sleep" /\ wexc' = None)
      /\ (running /\ pass.state = "ended" /\ pass.exc # None /\ wpc = "sleep"
            /\ wpc' # wpc)
           => (wpc' = "loop" /\ wexc' = None) ]_vars

\* C12: the worker tests the Event once per loop iteration, before the pass.
\* A pass begins only from the point reached by finding the Event set at the
\* wait, and the wait is reached only through the test of the loop that
\* follows the sleep.  No control call moves the worker out of its sleep, and
\* while the Event is clear a worker that is sleeping, at the test of the loop
\* or waiting begins no pass.
C12_FlagCheckedOncePerIteration ==
  [][ /\ (wpc' = "do_logging" /\ wpc # "do_logging")
           => (wpc = "wait" /\ logging_signal)
      /\ (wpc' = "wait" /\ wpc # "wait") => wpc = "loop"
      /\ (wpc' = "loop" /\ wpc # "loop") => wpc \in {"sleep", "init_connection"}
      /\ passes' # passes => (wpc = "do_logging" /\ passes' = passes + 1)
      /\ wpc = "sleep" => wpc' \in {"sleep", "loop", "raised"}
      /\ (wpc = "sleep" /\ logging_signal' # logging_signal) => wpc' = "sleep"
      /\ (wpc \in {"sleep", "loop", "wait"} /\ ~logging_signal)
           => (wpc' # "do_logging" /\ passes' = passes) ]_vars

\* After a pass the Event was cleared, and the worker, back from its sleep,
\* is blocked at the wait.
C12_Witness ==
  /\ running
  /\ passes = 1
  /\ wpc = "wait"
  /\ ~logging_signal

\* C13: a pass that has started runs to completion whatever control calls
\* arrive meanwhile: when the worker is back at the sleep, the pass has
\* handled the three slots and its row has been written.  (Passes begun after
\* _exit are left aside.)
C13_PassRunsToCompletion ==
  (running /\ wpc = "sleep" /\ pass.ts > 0) =>
    /\ Len(pass.outcomes) = 3
    /\ Len(pass.row) = 3
    /\ Len(pass.written) = 1

\* C14: between the moment a pass starts its queries and the moment its row
\* is written, no registry slot, writer or connection handle changes.
\* (Passes begun after _exit are left aside.)
C14_NoChangeDuringPass ==
  [][ (running /\ pass.state = "running") =>
        /\ instrument_addresses' = instrument_addresses
        /\ writer' = writer
        /\ connection' = connection ]_vars

(***************************************************************************)
(* Discovery of the bridge, checked under SpecScan.                        *)
(***************************************************************************)
\* Resource k answers "++help" with a non-empty text.
Confirms(k) == k \in 1 .. Len(resources) /\ resources[k] = "help text"

\* C15: init_connection scans the enumerated resources from last to first
\* and takes the first that answers "++help" with a non-empty text, skipping
\* those that time out or answer nothing: the handle is the confirming
\* resource of highest index.  When none confirms, or the list is empty, it
\* raises PrologixNotFoundException and no handle is set.
C15_InitConnection ==
  wpc \notin {"unstarted", "init_connection"} =>
    IF \E k \in 1 .. Len(resources) : Confirms(k)
      THEN /\ Confirms(connection)
           /\ \A j \in 1 .. Len(resources) : j > connection => ~Confirms(j)
           /\ wexc = None
           /\ wpc # "raised"
      ELSE /\ connection = 0
           /\ wexc = "PrologixNotFoundException"
           /\ wpc = "raised"

\* Of three resources the last timed out and the two before it confirm: the
\* handle is the second.
C15_Witness ==
  /\ resources = <<"help text", "help text", "timeout">>
  /\ wpc = "wait"
  /\ connection = 2

(***************************************************************************)
(* The log file, checked under SpecQuiet.                                  *)
(***************************************************************************)
\* C16: the file of a DataWriter holds the header line followed by the rows
\* written, in call order and verbatim, and holds them as soon as each call
\* returns.  Step by step: nothing is ever left in the buffer; the file
\* changes only when a DataWriter is created on it, and then holds the header
\* alone, or when write() returns, and then has gained exactly the row
\* written, as its last line.
C16_HeaderAndRows ==
  [][ \A p \in GoodPaths :
        /\ files'[p].buf = << >>
        /\ Len(files'[p].disk) <= 1 + passes'
        /\ \/ files'[p] = files[p]
           \/ /\ writer' # writer
              /\ writer'.path = p
              /\ files'[p].disk =
                   << <<"timestamp", "instrument 1", "instrument 2", "instrument 3">> >>
           \/ /\ writer' = writer
              /\ writer.path = p
              /\ Len(pass.row) = 3
              /\ Len(pass'.written) = 1
              /\ files'[p].disk =
                   Append(files[p].disk,
                          << <<"str", pass.ts>>, pass.row[1], pass.row[2], pass.row[3] >>)
    ]_vars

\* Two rows have been written: the file holds three lines, the header first,
\* the row of the second pass last.
C16_Witness ==
  /\ passes = 2
  /\ Len(pass.written) = 1
  /\ files["a.csv"].buf = << >>
  /\ Len(files["a.csv"].disk) = 3
  /\ files["a.csv"].disk[1] = <<"timestamp", "instrument 1", "instrument 2", "instrument 3">>
  /\ files["a.csv"].disk[2][1] = <<"str", 1>>
  /\ files["a.csv"].disk[3] = << <<"str", 2>> >> \o pass.row

\* C17: after any sequence of set_filepath calls at most one log file is
\* open.  A set_filepath that succeeds leaves the file of the previous writer
\* closed and makes current a new writer, on the new target, whose file is
\* the only one open.  (Checked under SpecApi.)
C17_OneOpenFile ==
  [][ /\ Cardinality(handles') <= 1
      /\ \A p \in Paths :
           (SetFilepath(p) /\ call'.ret = None) =>
             /\ writer' # NoWriter
             /\ writer'.id # writer.id
             /\ writer'.id \notin handles
             /\ writer'.path = p
             /\ handles' = {writer'.id} ]_vars

\* A second set_filepath has succeeded: the second writer is current and its
\* file is the only one open.
C17_Witness ==
  /\ call.op = "set_filepath"
  /\ call.ret = None
  /\ writer.id = 2
  /\ handles = {2}

C19_AfterExit ==
  ~running =>
    /\ writer = NoWriter \/ writer.id \notin handles
    /\ ~logging_signal

\* C19 amended: after _exit has run the file of the current writer, if there
\* is one, is closed, Worker.running is False and the Event is set; the next
\* time the worker tests the loop condition it leaves the loop, and it never
\* comes back from there.
C19_AfterExitEventSet ==
  [][ ~running' =>
        /\ writer' = NoWriter \/ writer'.id \notin handles'
        /\ logging_signal'
        /\ (~running /\ wpc = "loop" /\ wpc' # wpc) => wpc' = "returned"
        /\ wpc = "returned" => wpc' = "returned" ]_vars

\* _exit has run on a worker with a writer, and run() has returned.
C19_Witness ==
  /\ ~running
  /\ wpc = "returned"
  /\ writer # NoWriter
  /\ writer.id \notin handles
  /\ logging_signal
  /\ passes > 0

\* C20: set_interval with a non-empty text that is not a number raises
\* ValueError and leaves the interval as it was; with the empty text it does
\* nothing; with a number the interval becomes that number.  (Checked under
\* SpecApi.)
C20_SetInterval ==
  [][ /\ SetInterval("") => (call'.ret = None /\ interval' = interval)
      /\ SetInterval("abc") => (call'.ret = "ValueError" /\ interval' = interval)
      /\ SetInterval("-1") => (call'.ret = None /\ interval' = 0 - 1)
      /\ SetInterval("0") => (call'.ret = None /\ interval' = 0)
      /\ SetInterval("2") => (call'.ret = None /\ interval' = 2)
      /\ \A t \in IntervalStrings :
           SetInterval(t) =>
             /\ call'.op = "set_interval"
             /\ UNCHANGED << instrument_addresses, wrVars, sigVars >> ]_vars

\* set_interval("abc") has just failed, the interval still being 2.
C20_Witness ==
  /\ call.op = "set_interval"
  /\ call.ret = "ValueError"
  /\ interval = 2

(***************************************************************************)
(* Initialisation of an instrument, checked under SpecInit.                *)
(***************************************************************************)
\* C21: the initialisation of an instrument whose address is <= 0 raises
\* (ValueError) and sends no command: the call ends there, without the lock
\* having been taken.
C21_InvalidAddress ==
  [][ \A n \in Slots, t \in BOOLEAN :
        (SetInstrument(n, "0", t) \/ SetInstrument(n, "-3", t)) =>
          /\ call'.ret = "ValueError"
          /\ call'.sent = << >>
          /\ cpc' = "idle"
          /\ lock' = lock ]_vars

\* With the bridge connected, set_instrument(1, "-3", False) has raised
\* ValueError and nothing was sent.
C21_Witness ==
  /\ connection # 0
  /\ call.op = "set_instrument"
  /\ call.ret = "ValueError"
  /\ call.sent = << >>
  /\ instrument_addresses[1].address = 0 - 3

\* s is an initial part of t.
IsPrefix(s, t) == Len(s) <= Len(t) /\ s = SubSeq(t, 1, Len(s))

\* C22: for an address a > 0 the initialisation sends "++addr a", "++auto 1",
\* "PRESET NORM", "BEEP 0", "CLEAR", "TRIG HOLD" in this order and nothing
\* else: what a call has sent is always an initial part of that sequence (the
\* whole of it when the call returns normally), and the drain of pending input
\* is entered only with the whole sequence sent, "TRIG HOLD" last.
C22_InitOrder ==
  call.op = "set_instrument" =>
    /\ cpc = "init_instrument" => call.sent = << >>
    /\ cpc = "drain" =>
         /\ call.sent = InitSequence(instrument_addresses[initing].address)
         /\ call.sent[Len(call.sent)] = <<"TRIG HOLD">>
    /\ cpc = "idle" =>
         \E n \in Slots :
           IsPrefix(call.sent, InitSequence(instrument_addresses[n].address))
    /\ (cpc = "idle" /\ call.ret = None) =>
         \E n \in Slots :
           /\ instrument_addresses[n].address > 0
           /\ call.sent = InitSequence(instrument_addresses[n].address)

\* The initialisation for address 5 has sent its six commands and is
\* draining pending input.
C22_Witness ==
  /\ call.op = "set_instrument"
  /\ cpc = "drain"
  /\ pending > 0
  /\ call.sent = InitSequence(5)

\* The integer an address text denotes.
AddressOf(c) ==
  CASE c = "-3" -> 0 - 3
    [] c = "0" -> 0
    [] c = "5" -> 5
    [] c = "9" -> 9

\* C23: set_instrument(n, a, t) with a valid n and an integer address text
\* stores (a, t) in slot n before the initialisation and never takes it back:
\* whatever the initialisation does afterwards, fail included, the registry
\* stays as the call wrote it.
C23_NoRollback ==
  [][ /\ \A n \in Slots, c \in {"-3", "0", "5", "9"}, t \in BOOLEAN :
           SetInstrument(n, c, t) =>
             /\ instrument_addresses'[n] = [address |-> AddressOf(c), measure_temp |-> t]
             /\ \A m \in Slots \ {n} :
                  instrument_addresses'[m] = instrument_addresses[m]
             /\ AddressOf(c) <= 0 => call'.ret = "ValueError"
      /\ call.ret = "pending" => instrument_addresses' = instrument_addresses
    ]_vars

\* set_instrument(2, "9", True) has failed with a VisaIOError from the bridge
\* and slot 2 holds (9, True); slot 1 holds the address 0 of a call that
\* failed earlier.
C23_Witness ==
  /\ call.op = "set_instrument"
  /\ call.ret = "VisaIOError"
  /\ instrument_addresses[2] = [address |-> 9, measure_temp |-> TRUE]
  /\ instrument_addresses[1] = [address |-> 0, measure_temp |-> FALSE]

\* C25: a read that times out during the drain of pending input ends the
\* drain: the initialisation returns and the lock is released, even though
\* the device still reports bytes pending.
C25_TimeoutEndsDrain ==
  [][ DrainTimeout => (cpc' = "idle" /\ lock' = "free") ]_vars

(***************************************************************************)
(* Properties of the two contexts together, checked under Spec.            *)
(***************************************************************************)
\* The worker is inside a polling pass: it holds the lock, between the first
\* command of query_instruments and the end of do_logging.
InPass == wpc \in {"query", "finish"}

\* C24: the bridge is used by one context at a time: the commands of a device
\* initialisation (and the reads of its drain) are never issued while a
\* polling pass is between its first and last command; the commands of a pass
\* ("++addr", "TRIG SGL" of one slot together) are never issued while an
\* initialisation is between its commands and the end of its drain; the lock
\* is held by the worker exactly during a pass and by the control context
\* exactly during a drain.
C24_BusSequential ==
  /\ [][ /\ (\E failed \in 0 .. 6, b \in 0 .. MaxPending : InitInstrument(failed, b))
             => (~InPass /\ lock = "free")
         /\ ((\E left \in 0 .. MaxPending : DrainRead(left)) \/ DrainTimeout)
             => (~InPass /\ lock = "control")
         /\ pass'.sent # pass.sent
             => (pass'.sent = << >> \/ (lock = "worker" /\ cpc # "drain"))
       ]_vars
  /\ [](~(InPass /\ cpc = "drain"))
  /\ [](InPass <=> lock = "worker")
  /\ [](cpc = "drain" <=> lock = "control")

\* A pass has sent the commands of a slot while a set_instrument call waits
\* for the lock with its initialisation.
C24_Witness ==
  /\ wpc = "query"
  /\ Len(pass.sent) = 2
  /\ cpc = "init_instrument"
  /\ lock = "worker"

\* The worker is in the loop of run(): at the test of the loop, waiting on
\* the Event, in a pass or in the interval sleep.
InLoop == wpc \in {"loop", "wait", "do_logging", "query", "finish", "sleep"}

\* C26 (safety part): while the Event is set and stays set, and the worker has
\* not been told to exit, a worker that has initialised its connection stays
\* in its loop of wait, pass and sleep, so that a next pass can begin: no step
\* takes it out of the loop.
C26_PassesKeepBeginning ==
  [][ (connection # 0 /\ InLoop /\ running /\ running'
         /\ logging_signal /\ logging_signal')
        => InLoop' ]_vars

\* C27 (safety part): once _exit() has been called on a worker in its loop,
\* and no call is made afterwards, the worker leaves run() by returning from
\* it: no step ends the thread in another way.
C27_ReturnsAfterExit ==
  [][ (connection # 0 /\ InLoop /\ ~running) => (InLoop' \/ wpc' = "returned") ]_vars

\* C28: a pass of a worker that has not been told to exit sends "TRIG SGL"
\* for a slot only if an initialisation has run to completion for the
\* configuration the slot holds, after the slot was last configured.
C28_InitBeforeQuery ==
  [][ \A outcome \in Outcomes :
        (QuerySlot(outcome) /\ running /\ Len(pass'.sent) = Len(pass.sent) + 2)
          => (Len(pass.row) + 1) \in inited ]_vars

\* C29: at the start of every polling pass made while the Event is set and
\* the worker has not been told to exit, the readiness conditions hold: a slot
\* with an address above zero, an interval above zero, a writer.
C29_ReadyAtPassStart ==
  [][ (BeginPass /\ running /\ logging_signal)
        => /\ \E k \in Slots : instrument_addresses[k].address > 0
           /\ interval > 0
           /\ writer # NoWriter ]_vars

\* C30: after a successful discovery the worker's thread ends only through
\* the shutdown path: as long as _exit() has not cleared the running flag,
\* the worker has neither returned from run() nor left it by an exception,
\* whatever calls the control context has made.
C30_LoopNeverDies ==
  (connection # 0 /\ running) => wpc \notin {"raised", "returned"}

\* C31: a set_filepath() that fails to open its target leaves the writer
\* state as it was (the same writer, the same open files), and before
\* shutdown a writer that is set has an open file.
C31_WriterStaysOpen ==
  /\ [][ SetFilepath("") => (writer' = writer /\ handles' = handles) ]_vars
  /\ []((running /\ writer # NoWriter) => writer.id \in handles)

\* C33: a pass that emitted query_complete wrote its row: when the pass of a
\* worker that has not been told to exit has ended with the success
\* notification, its row is in the log and the pass raised nothing.
C33_SuccessMeansWritten ==
  (running /\ pass.state = "ended" /\ pass.notes # << >>
     /\ pass.notes[1][1] = "query_complete")
    => (pass.written = << <<pass.ts>> \o pass.row >> /\ pass.exc = None)

\* C32: once stop_logging() has returned, and until start_logging() or
\* _exit() is called, the Event is clear, at most one further pass begins, and
\* a worker that has not been told to exit and is not in that pass (sleeping,
\* at the test of the loop or waiting) stays there: it ends up blocked in the
\* wait on the Event.
C32_AtMostOnePassAfterStop ==
  /\ [](since_stop >= 0 => (~logging_signal /\ since_stop <= 1))
  /\ [][ (since_stop >= 0 /\ since_stop' = since_stop /\ running
            /\ wpc \in {"sleep", "loop", "wait"})
           => wpc' \in {"sleep", "loop", "wait"} ]_vars

====
